---- MODULE Spec2Model ----
(***************************************************************************)
(* A model of swift_scraper.py: the freshness-gated crawl of a directory   *)
(* of country partitions, each a chain of pages, into an in-memory         *)
(* accumulator, an optional document store, a result file and a freshness  *)
(* ledger file.                                                            *)
(*                                                                         *)
(* Python strings that the code takes apart (hrefs, labels, country names) *)
(* are sequences of one-character strings.  None and "" are both falsy in  *)
(* Python; an absent path is the empty sequence, an absent code is the     *)
(* string "None".  Time is in seconds.  The local files are assumed to be  *)
(* readable and writable (open / json.dump / json.load do not raise); the  *)
(* network, the identity service and the document store may fail.          *)
(***************************************************************************)
EXTENDS Integers, Sequences, FiniteSets, TLC

\* ------------------------------------------------------------------ bounds

\* Longest directory page (number of anchors) the directory lister returns.
MaxDir == 2
\* Number of pages of the longest partition of the site.
MaxPages == 3
\* Longest directory page in the behaviours that run main() twice.
MaxRerunDir == 1
\* Longest directory page of the site whose partition D cycles.
MaxChainDir == 2
\* Most pages fetched for one directory entry; only a chain that cycles
\* gets this far (MaxFetches > MaxPages).
MaxFetches == 5
\* Longest string normalize_country_name is applied to on its own.
MaxLen == 3

\* -------------------------------------------------------- program constants

FRESHNESS_WEEKS == 4
\* timedelta(weeks=FRESHNESS_WEEKS) in seconds
FreshnessWindow == FRESHNESS_WEEKS * (7 * 24 * 3600)
\* time.sleep(1)
SleepSeconds == 1

\* ----------------------------------------------------------------- strings

NoneStr == "None"
\* Python truthiness of an Optional[str] code
Truthy(s) == s /= NoneStr /\ s /= ""

\* characters str.strip() and str.split() without argument treat as whitespace
Whitespace == {" ", "\t", "\r", "\n", "\f"}
\* the argument of s.strip("/_. \t\r\n")
BoundaryChars == {"/", "_", ".", " ", "\t", "\r", "\n"}

RECURSIVE LStrip(_, _)
LStrip(s, cs) ==
  IF s = <<>> THEN s
  ELSE IF Head(s) \in cs THEN LStrip(Tail(s), cs) ELSE s

RECURSIVE RStrip(_, _)
RStrip(s, cs) ==
  IF s = <<>> THEN s
  ELSE IF s[Len(s)] \in cs THEN RStrip(SubSeq(s, 1, Len(s) - 1), cs) ELSE s

\* str.strip(chars)
Strip(s, cs) == RStrip(LStrip(s, cs), cs)

\* str.replace(a, b) for one-character a and b
Replace(s, a, b) == [i \in 1..Len(s) |-> IF s[i] = a THEN b ELSE s[i]]

\* " ".join(s.split()): the words of s, separated by single spaces
RECURSIVE JoinSplit(_)
JoinSplit(s) ==
  LET t == LStrip(s, Whitespace) IN
  IF t = <<>> THEN <<>>
  ELSE IF \E i \in 1..Len(t) : t[i] \in Whitespace
       THEN LET k == CHOOSE i \in 1..Len(t) :
                       /\ t[i] \in Whitespace
                       /\ \A j \in 1..(i - 1) : t[j] \notin Whitespace
                rest == JoinSplit(SubSeq(t, k + 1, Len(t)))
            IN  IF rest = <<>> THEN SubSeq(t, 1, k - 1)
                ELSE SubSeq(t, 1, k - 1) \o <<" ">> \o rest
       ELSE t

\* s.split(sep)[0]: the part of s before the first sep
SplitFirst(s, sep) ==
  IF \E i \in 1..Len(s) : s[i] = sep
  THEN LET k == CHOOSE i \in 1..Len(s) :
                  /\ s[i] = sep
                  /\ \A j \in 1..(i - 1) : s[j] /= sep
       IN  SubSeq(s, 1, k - 1)
  ELSE s

normalize_country_name(raw) ==
  IF raw = <<>> THEN <<>>
  ELSE LET s1 == Strip(raw, Whitespace)
           s2 == Strip(s1, BoundaryChars)
           s3 == Replace(Replace(s2, "_", " "), "-", " ")
       IN  JoinSplit(s3)

\* raw_country_from_href = country_href.strip("/").split("_")[0]
raw_country_from_href(country_href) == SplitFirst(Strip(country_href, {"/"}), "_")

\* normalize_country_name(raw_country_from_href or country_label)
CountryNameOf(href, label) ==
  LET raw == raw_country_from_href(href)
  IN  normalize_country_name(IF raw /= <<>> THEN raw ELSE label)

\* ------------------------------------------------------- time and the ledger

\* A datetime: seconds on its own clock (local), whether it carries a UTC
\* offset (aware) and that offset in seconds.
\* datetime.now(timezone.utc)
UtcNow(t) == [local |-> t, aware |-> TRUE, off |-> 0]

\* A string stored in the ledger is <<kind, local, off>>:
\*   "none"   no entry (what dict.get returns for a missing key)
\*   "empty"  the empty string
\*   "bad"    text that datetime.fromisoformat rejects
\*   "naive"  an ISO-8601 timestamp without UTC offset
\*   "aware"  an ISO-8601 timestamp with UTC offset
NoneVal == <<"none", 0, 0>>
EmptyVal == <<"empty", 0, 0>>
BadVal == <<"bad", 0, 0>>

\* datetime.isoformat()
IsoFormat(dt) ==
  IF dt.aware THEN <<"aware", dt.local, dt.off>> ELSE <<"naive", dt.local, 0>>

\* datetime.fromisoformat(s) raises ValueError on these
FromIsoRaises(s) == s[1] \notin {"naive", "aware"}

\* datetime.fromisoformat(s) where it parses
FromIsoFormat(s) == [local |-> s[2], aware |-> (s[1] = "aware"), off |-> s[3]]

\* a - b on datetimes raises TypeError when exactly one of them is naive
SubRaises(a, b) == a.aware /= b.aware

\* a - b in seconds, where it is defined
Sub(a, b) == (a.local - a.off) - (b.local - b.off)

\* freshness.get(iso2)
LedgerGet(freshness, iso2) ==
  IF iso2 \in DOMAIN freshness THEN freshness[iso2] ELSE NoneVal

\* what should_scrape returns: the pair (ok, reason), or raised when an
\* exception left the function
Returned(ok, reason, str) == [raised |-> FALSE, ok |-> ok, reason |-> <<reason, str>>]
Raised(error, str) == [raised |-> TRUE, ok |-> FALSE, reason |-> <<error, str>>]

\* mutant: an unknown identity is not scraped
NoIso2Skip == Returned(FALSE, "no iso2", NoneVal)

\* line 79: return True, "No iso2 code; defaulting to scrape."
NoIso2Decision == Returned(TRUE, "no iso2", NoneVal)

\* mutant: an entry that does not parse blocks the scrape
InvalidDateSkip(last_str) == Returned(FALSE, "invalid", last_str)

\* line 88: return True, f"Invalid stored date '{last_str}', scraping."
InvalidDateDecision(last_str) == Returned(TRUE, "invalid", last_str)

\* lines 90-93: the age of the entry against the freshness window
AgeDecision(t, last_dt) ==
  IF SubRaises(UtcNow(t), last_dt)
    THEN Raised("TypeError", IsoFormat(last_dt))
  ELSE IF Sub(UtcNow(t), last_dt) < FreshnessWindow
    THEN Returned(FALSE, "recent", IsoFormat(last_dt))
  ELSE Returned(TRUE, "stale", IsoFormat(last_dt))

\* should_scrape(iso2, freshness) at time t
should_scrape(iso2, freshness, t) ==
  LET last_str == LedgerGet(freshness, iso2) IN
  IF ~Truthy(iso2) THEN NoIso2Decision
  ELSE IF last_str[1] \in {"none", "empty"}
    THEN Returned(TRUE, "no previous", NoneVal)
  ELSE IF FromIsoRaises(last_str) THEN InvalidDateDecision(last_str)
  ELSE AgeDecision(t, FromIsoFormat(last_str))

\* ---------------------------------------------------------------- the site

\* Four partitions: A is a chain of MaxPages pages, B is a single page,
\* C is a dead link (every fetch of it fails with HTTP 404) whose href
\* yields no country name, so that its label is used instead, and D is two
\* pages the second of which names the first as its next page.
HrefA == <<"/", "a", "_", "s">>
HrefB == <<"/", "b", "-", "b", "_", "s">>
HrefC == <<"/", "_", "c">>
HrefD == <<"/", "d", "_", "s">>
SiteHrefs == {HrefA, HrefB, HrefC, HrefD}

NPages(href) ==
  IF href = HrefA THEN MaxPages
  ELSE IF href = HrefB THEN 1
  ELSE IF href = HrefD THEN 2 ELSE 0

\* the k-th page of a partition: its href followed by k - 1 plus signs
PagePath(href, k) == href \o [i \in 1..(k - 1) |-> "+"]

SitePaths == {PagePath(h, k) : h \in SiteHrefs, k \in 1..MaxPages}
ExistingPaths == {p \in SitePaths :
                    \E h \in SiteHrefs : \E k \in 1..NPages(h) : p = PagePath(h, k)}

\* the partition and the number of a page of the site: the path without
\* its plus signs, and one more than their number
HrefOf(path) == RStrip(path, {"+"})
PageNoOf(path) == Len(path) - Len(HrefOf(path)) + 1

\* the cells of a column of a page: each names its column, its partition,
\* its page and its row
Column(column, path, n) ==
  LET letter == HrefOf(path)[2]
      k == PageNoOf(path)
  IN  [j \in 1..n |-> <<column, letter, k, j>>]

\* The markup of an existing page: four columns and the next-page link.
\* The first page of a partition has two rows and a stray extra branch cell,
\* the other pages have one row, but for the second page of D, which has
\* none.  The last page of a partition has no next-page link, but for the
\* last page of D, which links to D's first page.
Html(path) ==
  LET h == HrefOf(path)
      k == PageNoOf(path)
      n == IF k = 1 THEN 2 ELSE IF h = HrefD THEN 0 ELSE 1
  IN
  [names    |-> Column("name", path, n),
   swifts   |-> Column("swift", path, n),
   cities   |-> Column("city", path, n),
   branches |-> Column("branch", path, IF k = 1 THEN n + 1 ELSE n),
   next     |-> IF k < NPages(h) THEN PagePath(h, k + 1)
                ELSE IF h = HrefD THEN HrefD ELSE <<>>]

Min(a, b) == IF a <= b THEN a ELSE b

\* parse_country_page(path), given that fetch_html succeeded
parse_country_page(path) ==
  LET soup == Html(path)
      n == Min(Min(Len(soup.names), Len(soup.swifts)),
               Min(Len(soup.cities), Len(soup.branches)))
  IN  [rows |-> [i \in 1..n |-> [name |-> soup.names[i],
                                 swift_code |-> soup.swifts[i],
                                 city |-> soup.cities[i],
                                 branch |-> soup.branches[i]]],
       next_href |-> soup.next]

\* the anchors 'ol > li > a' of a directory page: one without href, then
\* the anchors of some partitions
AnchorNoHref == [href |-> <<>>, label |-> <<"x">>]
Anchors ==
  {[href |-> HrefA, label |-> <<"A">>],
   [href |-> HrefB, label |-> <<"B">>],
   [href |-> HrefC, label |-> <<" ", "C", ".", " ">>]}

\* the anchor of partition D
AnchorD == [href |-> HrefD, label |-> <<"D">>]

RECURSIVE SeqsUpTo(_, _)
SeqsUpTo(S, n) ==
  IF n = 0 THEN {<<>>}
  ELSE LET shorter == SeqsUpTo(S, n - 1)
       IN  shorter \cup {Append(q, x) : q \in {r \in shorter : Len(r) = n - 1}, x \in S}

DirectoryPages(n) == {<<AnchorNoHref>> \o q : q \in SeqsUpTo(Anchors, n)}

\* the directory pages of a site that lists only partitions A and D
ChainDirectoryPages(n) ==
  {<<AnchorNoHref>> \o q :
     q \in SeqsUpTo({a \in Anchors : a.href = HrefA} \cup {AnchorD}, n)}

\* get_country_links(), given that fetch_html succeeded: the anchors with an href
RECURSIVE get_country_links(_)
get_country_links(anchors) ==
  IF anchors = <<>> THEN <<>>
  ELSE IF Head(anchors).href /= <<>>
       THEN <<Head(anchors)>> \o get_country_links(Tail(anchors))
       ELSE get_country_links(Tail(anchors))

\* the identity service's ranked answer for a name
Service(name) ==
  IF name = <<"a">> THEN <<[cca2 |-> "AA", cca3 |-> "AAA"]>>
  ELSE IF name = <<"b", " ", "b">> THEN <<[cca2 |-> "BB", cca3 |-> "BBB"]>>
  ELSE <<>>

\* lookup_iso(country_name); reachable tells whether the request succeeded
lookup_iso(country_name, reachable) ==
  IF country_name = <<>> THEN [iso2 |-> NoneStr, iso3 |-> NoneStr]
  ELSE IF reachable /\ Service(country_name) /= <<>>
       THEN [iso2 |-> Service(country_name)[1].cca2,
             iso3 |-> Service(country_name)[1].cca3]
       ELSE [iso2 |-> NoneStr, iso3 |-> NoneStr]

\* ------------------------------------------------------------ documents

\* the doc built from a row at lines 240-246; createdAt and updatedAt are
\* absent (<<>>) until save_documents_mongo sets them (<<datetime>>)
MakeDoc(iso2v, iso3v, name, path, row) ==
  [iso_code |-> iso2v, iso3 |-> iso3v, country |-> name, page |-> path,
   name |-> row.name, swift_code |-> row.swift_code, city |-> row.city,
   branch |-> row.branch, createdAt |-> <<>>, updatedAt |-> <<>>]

\* mutant: the docs carry the partition's first page instead of the page
\* they were read from
MakeDocsStartPage(iso2v, iso3v, name, path, rows) ==
  [i \in 1..Len(rows) |->
     MakeDoc(iso2v, iso3v, name, SubSeq(path, 1, Len(path) - 1), rows[i])]

MakeDocs(iso2v, iso3v, name, path, rows) ==
  [i \in 1..Len(rows) |-> MakeDoc(iso2v, iso3v, name, path, rows[i])]

\* save_documents_mongo stamps the docs in place before insert_many
StampDocs(docs, t) ==
  [i \in 1..Len(docs) |->
     [docs[i] EXCEPT !.createdAt = IF @ = <<>> THEN <<UtcNow(t)>> ELSE @,
                     !.updatedAt = <<UtcNow(t)>>]]

\* json.dump(..., default=str): a datetime is written as str(datetime)
StrOfDatetime(dt) == <<"str", dt.local, dt.off>>
JsonDoc(doc) ==
  [doc EXCEPT !.createdAt = [i \in 1..Len(@) |-> StrOfDatetime(@[i])],
              !.updatedAt = [i \in 1..Len(@) |-> StrOfDatetime(@[i])]]
JsonDump(docs) == [i \in 1..Len(docs) |-> JsonDoc(docs[i])]

\* ------------------------------------------------------------------ state

VARIABLES
  site_directory,  \* the anchors of the site's directory page
  now,             \* the clock, in seconds
  pc,              \* where main() is: load, links, mongo, loop, walk, save, done, crashed
  freshness_file,  \* FRESHNESS_FILE: [exists, data]
  data_file,       \* DATA_FILE: [exists, docs]
  inserts,         \* number of insert_many calls of this run
  insert_result,   \* how insert_many ended in the last step: none, ok, failed
  freshness,       \* main's freshness dict
  country_links,   \* main's country_links
  coll,            \* main's coll: NoneStr or "coll"
  all_docs,        \* main's all_docs
  idx,             \* number of country_links the for loop has taken
  country_name,    \* scrape_country's locals
  iso2,
  iso3,
  decision,        \* what should_scrape returned (or that it raised)
  current_path,
  trace,           \* history: what this run did, in order
  start,           \* history: all_docs and freshness when scrape_country was called
  loaded,          \* history: what load_freshness returned in this run
  prev             \* history: whether a run went before, whether it saved the
                   \* ledger, and when it updated which code

vars == <<site_directory, now, pc, freshness_file, data_file, inserts, insert_result, freshness, country_links,
          coll, all_docs, idx, country_name, iso2, iso3, decision, current_path,
          trace, start, loaded, prev>>

program == <<freshness, country_links, coll, all_docs, idx>>
locals == <<country_name, iso2, iso3, decision, current_path>>
files == <<freshness_file, data_file>>
mongo == <<inserts, insert_result>>

EmptyLedger == [c \in {} |-> NoneVal]
NoUpdates == [c \in {} |-> 0]
NoDecision == Returned(FALSE, "", NoneVal)

\* one entry of the history: what was done, for which entry of country_links,
\* on which page, whether it succeeded, the iso2 of the partition, and when
Ev(op, part, page, ok, code) ==
  [op |-> op, part |-> part, page |-> page, ok |-> ok, code |-> code, at |-> now]

\* the clock at the start of the first run
StartTime == 2 * FreshnessWindow

\* what a ledger file left by an earlier run or by hand may hold under a code
LedgerStrings(t) ==
  {EmptyVal, BadVal,
   <<"naive", t - 1, 0>>,
   <<"aware", t - 1, 0>>,
   <<"aware", t - (FreshnessWindow - 1) - 3600, 0 - 3600>>,
   <<"aware", t - FreshnessWindow + 3600, 3600>>}

\* FRESHNESS_FILE before the first run: absent, or a mapping with at most
\* one entry: any of the strings under AA, a fresh timestamp under BB
InitialLedgerFiles ==
  {[exists |-> FALSE, data |-> EmptyLedger], [exists |-> TRUE, data |-> EmptyLedger]}
  \cup {[exists |-> TRUE, data |-> [c \in {"AA"} |-> v]] : v \in LedgerStrings(StartTime)}
  \cup {[exists |-> TRUE, data |-> [c \in {"BB"} |-> <<"aware", StartTime - 1, 0>>]]}

\* time between the end of a run and the start of the next
Gaps == {0, FreshnessWindow}

\* what Init and InitRerun share
InitRest ==
  /\ now = StartTime
  /\ pc = "load"
  /\ data_file = [exists |-> FALSE, docs |-> <<>>]
  /\ inserts = 0
  /\ insert_result = "none"
  /\ freshness = EmptyLedger
  /\ country_links = <<>>
  /\ coll = NoneStr
  /\ all_docs = <<>>
  /\ idx = 0
  /\ country_name = <<>>
  /\ iso2 = NoneStr
  /\ iso3 = NoneStr
  /\ decision = NoDecision
  /\ current_path = <<>>
  /\ trace = <<>>
  /\ start = [all_docs |-> <<>>, freshness |-> EmptyLedger]
  /\ loaded = EmptyLedger
  /\ prev = [ran |-> FALSE, saved |-> FALSE, updated |-> NoUpdates]

\* one run of main() over any of the ledger files and directory pages
Init ==
  /\ site_directory \in DirectoryPages(MaxDir)
  /\ freshness_file \in InitialLedgerFiles
  /\ InitRest

\* FRESHNESS_FILE before the first of two runs: absent, or one entry that
\* is about to leave the freshness window
RerunLedgerFiles ==
  {f \in InitialLedgerFiles :
     \A c \in DOMAIN f.data : c = "AA" /\ f.data[c][1] = "aware" /\ f.data[c][3] < 0}
  \ {[exists |-> TRUE, data |-> EmptyLedger]}

\* two runs of main() over a short directory page
InitRerun ==
  /\ site_directory \in DirectoryPages(MaxRerunDir)
  /\ freshness_file \in RerunLedgerFiles
  /\ InitRest

\* one run of main() over a site that lists partitions A and D, with no
\* ledger file
InitChain ==
  /\ site_directory \in ChainDirectoryPages(MaxChainDir)
  /\ freshness_file = [exists |-> FALSE, data |-> EmptyLedger]
  /\ InitRest

\* the characters of the strings normalize_country_name is applied to on
\* its own: a letter, slash, underscore, dot, hyphen, space and form feed
Alphabet == {"a", "/", "_", ".", "-", " ", "\f"}

\* normalize_country_name applied to any string of up to MaxLen characters,
\* outside a run of main(): country_name holds the string
InitNormalize ==
  /\ country_name \in SeqsUpTo(Alphabet, MaxLen)
  /\ pc = "normalize"
  /\ site_directory = <<>>
  /\ freshness_file = [exists |-> FALSE, data |-> EmptyLedger]
  /\ now = StartTime
  /\ data_file = [exists |-> FALSE, docs |-> <<>>]
  /\ inserts = 0
  /\ insert_result = "none"
  /\ freshness = EmptyLedger
  /\ country_links = <<>>
  /\ coll = NoneStr
  /\ all_docs = <<>>
  /\ idx = 0
  /\ iso2 = NoneStr
  /\ iso3 = NoneStr
  /\ decision = NoDecision
  /\ current_path = <<>>
  /\ trace = <<>>
  /\ start = [all_docs |-> <<>>, freshness |-> EmptyLedger]
  /\ loaded = EmptyLedger
  /\ prev = [ran |-> FALSE, saved |-> FALSE, updated |-> NoUpdates]

\* ---------------------------------------------------------------- actions

\* main, line 271: freshness = load_freshness()
load_freshness(file) == IF file.exists THEN file.data ELSE EmptyLedger

LoadFreshness ==
  /\ pc = "load"
  /\ freshness' = load_freshness(freshness_file)
  /\ loaded' = load_freshness(freshness_file)
  /\ pc' = "links"
  /\ insert_result' = "none"
  /\ UNCHANGED <<site_directory, now, files, inserts, country_links, coll, all_docs, idx,
                 locals, trace, start, prev>>

\* mutant: the failure of the directory fetch is swallowed and main goes on
\* with no links
AfterListFailureGoOn == "mongo"

\* main, line 274: nothing catches the exception of get_country_links
AfterListFailure == "crashed"

\* main, line 274: country_links = get_country_links(); a failed fetch of
\* the directory page raises out of main and ends the process
GetCountryLinks ==
  /\ pc = "links"
  /\ \/ /\ country_links' = get_country_links(site_directory)
        /\ trace' = Append(trace, Ev("list", 0, <<>>, TRUE, NoneStr))
        /\ pc' = "mongo"
     \/ /\ country_links' = country_links
        /\ trace' = Append(trace, Ev("list", 0, <<>>, FALSE, NoneStr))
        /\ pc' = AfterListFailure
  /\ insert_result' = "none"
  /\ UNCHANGED <<site_directory, now, files, inserts, freshness, coll, all_docs, idx,
                 locals, start, loaded, prev>>

\* mutant: the collection is handed out without the ping
CollUnchecked(up) == "coll"

\* main, lines 277-282: coll is the collection if the ping of
\* get_mongo_collection succeeded and stays None if it raised
CollOrNone(up) == IF up THEN "coll" ELSE NoneStr

\* main, lines 277-285: the ping of get_mongo_collection decides coll
GetMongoCollection ==
  /\ pc = "mongo"
  /\ \E up \in BOOLEAN :
       /\ coll' = CollOrNone(up)
       /\ trace' = Append(trace, Ev("ping", 0, <<>>, up, NoneStr))
  /\ all_docs' = <<>>
  /\ pc' = "loop"
  /\ insert_result' = "none"
  /\ UNCHANGED <<site_directory, now, files, inserts, freshness, country_links, idx,
                 locals, start, loaded, prev>>

\* mutant: no try/except around scrape_country, the exception ends main
AfterExceptionUncaught == "crashed"

\* main, lines 289-292: an exception out of scrape_country is caught and the
\* for loop goes on
AfterException == "loop"

\* mutant: all_docs.extend(docs) inside the try, after the insert
ExtendInsideTry(docs, saved) == IF saved.raised THEN docs ELSE docs \o saved.docs

\* mutant: all_docs = docs instead of all_docs.extend(docs)
ExtendOverwrite(docs, saved) == saved.docs

\* mutant: the batch is put in front of all_docs
ExtendPrepend(docs, saved) == saved.docs \o docs

\* lines 249-256: the batch joins all_docs whether or not the insert raised
Extend(docs, saved) == docs \o saved.docs

\* mutant: "freshness = freshness or {}" in scrape_country, which sends the
\* update of an empty ledger to a dict main never sees
UpdateLedgerOrEmpty(ledger, code, t) ==
  IF Truthy(code) /\ ledger /= EmptyLedger
    THEN [c \in DOMAIN ledger \cup {code} |->
            IF c = code THEN IsoFormat(UtcNow(t)) ELSE ledger[c]]
    ELSE ledger

\* mutant: the update starts a new dict that holds the code alone
UpdateLedgerAlone(ledger, code, t) ==
  IF Truthy(code) THEN [c \in {code} |-> IsoFormat(UtcNow(t))] ELSE ledger

\* mutant: the update without its "if iso2" guard
UpdateLedgerUnguarded(ledger, code, t) ==
  [c \in DOMAIN ledger \cup {code} |->
     IF c = code THEN IsoFormat(UtcNow(t)) ELSE ledger[c]]

\* lines 264-265: if iso2: freshness[iso2] = datetime.now(timezone.utc).isoformat()
UpdateLedger(ledger, code, t) ==
  IF Truthy(code)
    THEN [c \in DOMAIN ledger \cup {code} |->
            IF c = code THEN IsoFormat(UtcNow(t)) ELSE ledger[c]]
    ELSE ledger

\* mutant: an empty ledger is not written
save_freshness_nonempty(data) ==
  IF data = EmptyLedger THEN freshness_file ELSE [exists |-> TRUE, data |-> data]

\* save_freshness(data): FRESHNESS_FILE after json.dump
save_freshness(data) == [exists |-> TRUE, data |-> data]

\* mutant: scrape_country is given the ledger as it was loaded
PassedAsLoaded == loaded

\* line 290: scrape_country(..., freshness=freshness, ...) passes main's
\* dict itself, with the updates of the entries before
PassedLedger == freshness

\* mutant: the return of line 229 is missing and the code below it runs
AfterSkipGoOn == "walk"

\* lines 228-229: if not ok: return
AfterSkip == "loop"

\* main, line 288-290, and scrape_country, lines 211-231: the for loop takes
\* the next link and calls scrape_country, which normalizes, looks the
\* identity up and asks should_scrape.  A TypeError out of should_scrape is
\* caught at line 291; a fresh partition returns at line 229; otherwise the
\* walk starts at the partition's href.
ScrapeCountryBegin ==
  /\ pc = "loop"
  /\ idx < Len(country_links)
  /\ LET link == country_links[idx + 1]
         name == CountryNameOf(link.href, link.label)
     IN  \E reachable \in BOOLEAN :
           LET iso == lookup_iso(name, reachable)
               d == should_scrape(iso.iso2, PassedLedger, now)
               called == Append(trace, Ev("call", idx + 1, link.href, TRUE, iso.iso2))
           IN  /\ idx' = idx + 1
               /\ country_name' = name
               /\ iso2' = iso.iso2
               /\ iso3' = iso.iso3
               /\ decision' = d
               /\ start' = [all_docs |-> all_docs, freshness |-> freshness]
               /\ IF d.raised
                    THEN /\ trace' = Append(called, Ev("error", idx + 1, <<>>, FALSE, iso.iso2))
                         /\ current_path' = current_path
                         /\ pc' = AfterException
                  ELSE IF ~d.ok
                    THEN /\ trace' = Append(called, Ev("skip", idx + 1, <<>>, TRUE, iso.iso2))
                         /\ current_path' = current_path
                         /\ pc' = AfterSkip
                  ELSE /\ trace' = called
                       /\ current_path' = link.href
                       /\ pc' = "walk"
  /\ insert_result' = "none"
  /\ UNCHANGED <<site_directory, now, files, inserts, freshness, country_links, coll,
                 all_docs, loaded, prev>>

\* save_documents_mongo(coll, docs) at time t: nothing is done for an empty
\* batch; otherwise the docs are stamped and insert_many is called, which
\* raises when the store rejects the batch
save_documents_mongo(docs, t, accepted) ==
  IF docs = <<>>
    THEN [docs |-> docs, attempted |-> FALSE, raised |-> FALSE]
    ELSE [docs |-> StampDocs(docs, t), attempted |-> TRUE, raised |-> ~accepted]

\* the number of pages fetched so far for the entry the for loop is at
PagesFetched ==
  Cardinality({k \in 1..Len(trace) : trace[k].op = "fetch" /\ trace[k].part = idx})

\* mutant: the loop never moves on from the page it is at
NextPathStay(path, next_href) == path

\* line 259: current_path = next_href
NextPath(path, next_href) == next_href

\* scrape_country, lines 234-261: one iteration of the pagination loop.  A
\* failed fetch raises out of scrape_country and is caught at line 291.
\* The model follows a walk for MaxFetches pages and no further.
WalkPage ==
  /\ pc = "walk"
  /\ current_path /= <<>>
  /\ PagesFetched < MaxFetches
  /\ \/ /\ trace' = Append(Append(trace, Ev("fetch", idx, current_path, FALSE, iso2)),
                           Ev("error", idx, current_path, FALSE, iso2))
        /\ pc' = AfterException
        /\ insert_result' = "none"
        /\ UNCHANGED <<now, inserts, all_docs, current_path>>
     \/ /\ current_path \in ExistingPaths
        /\ \E accepted \in BOOLEAN :
             LET page == parse_country_page(current_path)
                 docs == MakeDocs(iso2, iso3, country_name, current_path, page.rows)
                 saved == IF coll /= NoneStr
                            THEN save_documents_mongo(docs, now, accepted)
                            ELSE [docs |-> docs, attempted |-> FALSE, raised |-> FALSE]
             IN  /\ inserts' = IF saved.attempted THEN inserts + 1 ELSE inserts
                 /\ insert_result' = IF ~saved.attempted THEN "none"
                                      ELSE IF saved.raised THEN "failed" ELSE "ok"
                 /\ all_docs' = Extend(all_docs, saved)
                 /\ current_path' = NextPath(current_path, page.next_href)
                 /\ now' = now + SleepSeconds
                 /\ trace' = Append(Append(trace, Ev("fetch", idx, current_path, TRUE, iso2)),
                                     Ev("sleep", idx, current_path, TRUE, iso2))
        /\ pc' = "walk"
  /\ UNCHANGED <<site_directory, files, freshness, country_links, coll, idx,
                 country_name, iso2, iso3, decision, start, loaded, prev>>

\* scrape_country, lines 263-266: the loop has ended on an absent next page
UpdateFreshness ==
  /\ pc = "walk"
  /\ current_path = <<>>
  /\ freshness' = UpdateLedger(freshness, iso2, now)
  /\ trace' = Append(trace, Ev(IF Truthy(iso2) THEN "update" ELSE "return",
                               idx, <<>>, TRUE, iso2))
  /\ pc' = "loop"
  /\ insert_result' = "none"
  /\ UNCHANGED <<site_directory, now, files, inserts, country_links, coll, all_docs, idx,
                 locals, start, loaded, prev>>

\* mutant: DATA_FILE is written whatever all_docs holds
WriteAlways(docs) == TRUE

\* line 295: if all_docs:
WriteIfAny(docs) == docs /= <<>>

\* main, lines 295-298: after the loop, write DATA_FILE if all_docs is not empty
FlushData ==
  /\ pc = "loop"
  /\ idx = Len(country_links)
  /\ IF WriteIfAny(all_docs)
       THEN /\ data_file' = [exists |-> TRUE, docs |-> JsonDump(all_docs)]
            /\ trace' = Append(trace, Ev("write_data", 0, <<>>, TRUE, NoneStr))
       ELSE /\ data_file' = data_file
            /\ trace' = trace
  /\ pc' = "save"
  /\ insert_result' = "none"
  /\ UNCHANGED <<site_directory, now, freshness_file, inserts, program, locals, start,
                 loaded, prev>>

\* main, line 301: save_freshness(freshness)
SaveFreshness ==
  /\ pc = "save"
  /\ freshness_file' = save_freshness(freshness)
  /\ trace' = Append(trace, Ev("save_freshness", 0, <<>>, TRUE, NoneStr))
  /\ pc' = "done"
  /\ insert_result' = "none"
  /\ UNCHANGED <<site_directory, now, data_file, inserts, program, locals, start, loaded,
                 prev>>

\* the codes this run has updated, each with the time of its last update
Updates == {k \in 1..Len(trace) : trace[k].op = "update"}
UpdatedAt ==
  [c \in {trace[k].code : k \in Updates} |->
     trace[CHOOSE k \in Updates :
             /\ trace[k].code = c
             /\ \A m \in Updates : trace[m].code = c => m <= k].at]

\* main() is started a second time, at once or after the freshness window,
\* over the files the first run left
Rerun ==
  /\ pc \in {"done", "crashed"}
  /\ ~prev.ran
  /\ \E gap \in Gaps : now' = now + gap
  /\ pc' = "load"
  /\ prev' = [ran |-> TRUE, saved |-> (pc = "done"), updated |-> UpdatedAt]
  /\ freshness' = EmptyLedger
  /\ country_links' = <<>>
  /\ coll' = NoneStr
  /\ all_docs' = <<>>
  /\ idx' = 0
  /\ country_name' = <<>>
  /\ iso2' = NoneStr
  /\ iso3' = NoneStr
  /\ decision' = NoDecision
  /\ current_path' = <<>>
  /\ trace' = <<>>
  /\ start' = [all_docs |-> <<>>, freshness |-> EmptyLedger]
  /\ loaded' = EmptyLedger
  /\ inserts' = 0
  /\ insert_result' = "none"
  /\ UNCHANGED <<site_directory, files>>

Next ==
  \/ LoadFreshness
  \/ GetCountryLinks
  \/ GetMongoCollection
  \/ ScrapeCountryBegin
  \/ WalkPage
  \/ UpdateFreshness
  \/ FlushData
  \/ SaveFreshness

NextRerun == Next \/ Rerun

\* country_name = normalize_country_name(country_name), at most twice; the
\* history keeps the argument of each application
Normalize ==
  /\ pc = "normalize"
  /\ Len(trace) < 2
  /\ country_name' = normalize_country_name(country_name)
  /\ trace' = Append(trace, Ev("normalize", 0, country_name, TRUE, NoneStr))
  /\ UNCHANGED <<site_directory, now, pc, files, mongo, program, iso2, iso3,
                 decision, current_path, start, loaded, prev>>

\* normalize_country_name on its own
SpecNormalize == InitNormalize /\ [][Normalize]_vars

\* one run of main()
Spec == Init /\ [][Next]_vars

\* one run of main() over the site of A and D; scrape_country is sequential
\* code, every step of which ends (the requests have timeouts, the pause is
\* one second), so that the step it is at is taken
SpecChain ==
  InitChain /\ [][Next]_vars /\ WF_vars(WalkPage) /\ WF_vars(UpdateFreshness)

\* a run of main() and the run after it
SpecRerun == InitRerun /\ [][NextRerun]_vars

\* ------------------------------------------------- reading the history

Last(q) == q[Len(q)]

\* the events of a kind, and those of a kind for one entry of country_links
Of(op) == LET Test(e) == e.op = op IN SelectSeq(trace, Test)
OfPart(op, i) == LET Test(e) == e.op = op /\ e.part = i IN SelectSeq(trace, Test)

\* the page fetches made for entry i, in order
Fetches(i) == OfPart("fetch", i)

\* the anchors of the directory page that carry an href, in page order
Listed == LET Test(a) == a.href /= <<>> IN SelectSeq(site_directory, Test)

\* the rows a page shows: its four columns side by side, as long as the
\* shortest of them
ShownRows(path) ==
  LET h == Html(path)
      n == CHOOSE m \in 0..Len(h.names) :
             /\ m <= Len(h.swifts) /\ m <= Len(h.cities) /\ m <= Len(h.branches)
             /\ \/ m = Len(h.names) \/ m = Len(h.swifts)
                \/ m = Len(h.cities) \/ m = Len(h.branches)
  IN  [i \in 1..n |-> <<path, h.names[i], h.swifts[i], h.cities[i], h.branches[i]>>]

\* the rows of the first k pages of a partition, page after page
RECURSIVE ChainRows(_, _)
ChainRows(href, k) ==
  IF k = 0 THEN <<>> ELSE ChainRows(href, k - 1) \o ShownRows(PagePath(href, k))

\* the page and row a document carries
Provenance(d) == <<d.page, d.name, d.swift_code, d.city, d.branch>>
Provenances(docs) == [i \in 1..Len(docs) |-> Provenance(docs[i])]

\* the documents appended since scrape_country was called
Appended ==
  IF Len(all_docs) >= Len(start.all_docs)
    THEN SubSeq(all_docs, Len(start.all_docs) + 1, Len(all_docs)) ELSE <<>>

\* the walk of entry i reached the page without next page, every fetch succeeding
Completed(i) ==
  LET f == Fetches(i) IN
  /\ f /= <<>>
  /\ \A j \in 1..Len(f) : f[j].ok /\ f[j].page = PagePath(country_links[i].href, j)
  /\ Last(f).page \in ExistingPaths
  /\ Html(Last(f).page).next = <<>>
  /\ OfPart("skip", i) = <<>>
  /\ OfPart("error", i) = <<>>

\* scrape_country has just come back to main's loop
Ended(op) == pc = "loop" /\ idx >= 1 /\ trace /= <<>> /\ Last(trace).op = op

\* --------------------------------------------------------------- claims

\* C1: an error raised while an entry of the directory is processed is caught
\* at main's loop and never ends the process; the entries are attempted one
\* after the other in directory order, each once, and when the loop is over
\* every entry has been attempted, whatever failed before it.
C1_FailureIsolation ==
  LET calls == Of("call") IN
  /\ country_links /= <<>> => country_links = Listed
  /\ Len(calls) = idx
  /\ \A k \in 1..Len(calls) :
       /\ calls[k].part = k
       /\ calls[k].page = Listed[k].href
  /\ Of("error") /= <<>> => pc /= "crashed"
  /\ pc \in {"save", "done"} => Len(calls) = Len(Listed)

\* C1 witness: the first entry failed on a page fetch, the second entry was
\* attempted after it and the run reached its end.
C1_Witness ==
  /\ pc = "done"
  /\ Len(Listed) = 2
  /\ OfPart("error", 1) /= <<>>
  /\ OfPart("call", 2) /= <<>>
  /\ \E k \in 1..Len(trace) : \E m \in 1..Len(trace) :
       /\ k < m
       /\ trace[k].op = "error" /\ trace[k].part = 1 /\ trace[k].page /= <<>>
       /\ trace[m].op = "call" /\ trace[m].part = 2

\* C2: when the fetch of page k of a partition fails, the partition ends
\* with the documents of its pages 1..k-1 appended to the accumulator and
\* nothing else, the pages fetched for it are 1..k and no more, for the rest
\* of the run, and the ledger is as it was when the partition started.
C2_FetchFailure ==
  /\ \A i \in 1..idx :
       LET f == Fetches(i) IN
       \A j \in 1..Len(f) :
         /\ f[j].page = PagePath(country_links[i].href, j)
         /\ ~f[j].ok => j = Len(f)
  /\ (Ended("error") /\ Last(trace).page /= <<>>) =>
       LET k == Len(Fetches(idx)) IN
       /\ ~Last(Fetches(idx)).ok
       /\ Last(trace).page = PagePath(country_links[idx].href, k)
       /\ Len(all_docs) >= Len(start.all_docs)
       /\ SubSeq(all_docs, 1, Len(start.all_docs)) = start.all_docs
       /\ Provenances(Appended) = ChainRows(country_links[idx].href, k - 1)
       /\ freshness = start.freshness

\* C2 witness: page 2 of a partition of at least 3 pages failed, after
\* another partition had left documents, and the partition has an iso2.
C2_Witness ==
  /\ Ended("error")
  /\ Last(trace).page = PagePath(HrefA, 2)
  /\ NPages(HrefA) >= 3
  /\ Truthy(iso2)
  /\ start.all_docs /= <<>>
  /\ Len(Appended) = 2

\* C3: a ledger entry that differs from the one loaded belongs to a code
\* that an entry of this run resolved as its iso2 and whose walk reached the
\* page without next page with no failed fetch; a partition that was
\* skipped, failed or has no iso2 leaves the ledger as it found it.
C3_LedgerGuard ==
  /\ \A c \in DOMAIN freshness :
       (c \notin DOMAIN loaded \/ freshness[c] /= loaded[c]) =>
         /\ Truthy(c)
         /\ LET calls == Of("call")
            IN  \E i \in 1..idx : calls[i].code = c /\ Completed(i)
  /\ (Ended("skip") \/ Ended("error") \/ Ended("return")) =>
       freshness = start.freshness

\* C3 witness: one entry's code was written, another entry with an iso2
\* failed, and the ledger holds one changed entry only.
C3_Witness ==
  /\ Ended("error")
  /\ Truthy(iso2)
  /\ \E c \in DOMAIN freshness : c \notin DOMAIN loaded /\ c /= iso2
  /\ iso2 \notin DOMAIN freshness

\* q is the beginning of r
IsPrefix(q, r) == Len(q) <= Len(r) /\ SubSeq(r, 1, Len(q)) = q

\* C4: when the document store is configured and insert_many fails for the
\* batch of a page, scrape_country goes on (nothing is raised to main), the
\* rows of that page are appended to the accumulator in that same step, no
\* step of the run takes a document out of the accumulator, and the result
\* file written after the loop holds every document of the accumulator.
C4_SinkIndependence ==
  [][/\ insert_result' = "failed" =>
          /\ coll /= NoneStr
          /\ pc = "walk" /\ pc' = "walk"
          /\ IsPrefix(all_docs, all_docs')
          /\ ShownRows(current_path) /= <<>>
          /\ Provenances(SubSeq(all_docs', Len(all_docs) + 1, Len(all_docs')))
               = ShownRows(current_path)
     /\ prev' = prev => IsPrefix(all_docs, all_docs')
     /\ (pc = "loop" /\ pc' = "save" /\ all_docs /= <<>>) =>
          /\ data_file'.exists
          /\ Provenances(data_file'.docs) = Provenances(all_docs)
          /\ all_docs' = all_docs
    ]_vars

\* C4 witness: the insert of the second page's batch has just failed and the
\* accumulator ends with the row of that page.
C4_Witness ==
  /\ insert_result = "failed"
  /\ pc = "walk"
  /\ Last(trace).page = PagePath(HrefA, 2)
  /\ Len(all_docs) >= 3
  /\ Last(all_docs).page = PagePath(HrefA, 2)

\* C5: in a run that follows a run which saved the ledger, an entry whose
\* iso2 the earlier run updated less than the freshness window before the
\* entry is taken is skipped: no page is fetched for it and the accumulator
\* is as it was when the entry was taken.
C5_RerunSkips ==
  (prev.ran /\ prev.saved) =>
    LET calls == Of("call") IN
    \A i \in 1..idx :
      LET c == calls[i] IN
      (Truthy(c.code) /\ c.code \in DOMAIN prev.updated
         /\ c.at - prev.updated[c.code] < FreshnessWindow) =>
        /\ Fetches(i) = <<>>
        /\ OfPart("skip", i) /= <<>>
        /\ i = idx => (all_docs = start.all_docs /\ pc /= "walk")

\* C5 witness: the second run, started at once, has just skipped the entry
\* the first run completed.
C5_Witness ==
  /\ prev.ran /\ prev.saved
  /\ Ended("skip")
  /\ iso2 \in DOMAIN prev.updated
  /\ now = prev.updated[iso2]

\* should_scrape has just been asked about entry idx: start.freshness is the
\* ledger it saw and now the time it saw
Decided ==
  /\ idx >= 1 /\ trace /= <<>>
  /\ Last(trace).part = idx
  /\ \/ Last(trace).op \in {"call", "skip"}
     \/ Last(trace).op = "error" /\ Last(trace).page = <<>>

\* what the ledger held for the code of entry idx when should_scrape was asked
Stored == LedgerGet(start.freshness, iso2)

\* the point in time a stored timestamp names, in seconds
Instant(str) == str[2] - str[3]

\* C6: for a resolved code whose stored timestamp parses, should_scrape
\* returns a pair, and its decision is do-not-scrape exactly when the
\* timestamp is less than 4 weeks old.
C6_FreshnessWindow ==
  (Decided /\ Truthy(iso2) /\ Stored[1] \in {"naive", "aware"}) =>
    /\ ~decision.raised
    /\ ~decision.ok <=> now - Instant(Stored) < FRESHNESS_WEEKS * 604800

\* the walk of entry i starts: its first page is about to be fetched or
\* was the first thing fetched for it
WalkStarts(i) ==
  /\ OfPart("skip", i) = <<>>
  /\ IF Fetches(i) = <<>>
       THEN i = idx /\ pc = "walk" /\ current_path = country_links[i].href
       ELSE Fetches(i)[1].page = country_links[i].href

\* C7: for an entry with no iso2, should_scrape returns scrape whatever the
\* ledger holds, and the walk of the entry starts at its first page.
C7_UnknownIdentity ==
  /\ (idx >= 1 /\ ~Truthy(iso2)) => (~decision.raised /\ decision.ok)
  /\ LET calls == Of("call")
     IN  \A i \in 1..idx : ~Truthy(calls[i].code) => WalkStarts(i)

\* C7 witness: the ledger holds a fresh entry, the entry has no iso2 and its
\* first page has been fetched.
C7_Witness ==
  /\ idx >= 1 /\ ~Truthy(iso2)
  /\ \E c \in DOMAIN start.freshness :
       start.freshness[c][1] = "aware" /\ now - Instant(start.freshness[c]) < 60
  /\ Fetches(idx) /= <<>>
  /\ Fetches(idx)[1].ok

\* C8: for a resolved code whose ledger entry is missing, empty or does not
\* parse, should_scrape returns scrape and the walk of the entry starts.
C8_MissingOrCorrupt ==
  (idx >= 1 /\ Truthy(iso2) /\ Stored[1] \in {"none", "empty", "bad"}) =>
    /\ ~decision.raised
    /\ decision.ok
    /\ WalkStarts(idx)

\* C8 witness: the entry of a resolved code does not parse and the first
\* page of the partition has been fetched.
C8_Witness ==
  /\ idx >= 1 /\ Truthy(iso2)
  /\ Stored = BadVal
  /\ Fetches(idx) /= <<>>

\* C9: the ledger is saved at most once in a run, as the last thing the run
\* does, when every entry of the directory has been attempted; once the
\* loop is over nothing stands between the run and the save, and the run
\* ends with the ledger file holding main's ledger.
C9_LedgerSavedOnce ==
  /\ Len(Of("save_freshness")) <= 1
  /\ Of("save_freshness") /= <<>> =>
       /\ Last(trace).op = "save_freshness"
       /\ pc = "done"
       /\ Len(Of("call")) = Len(Listed)
  /\ pc = "done" =>
       /\ Len(Of("save_freshness")) = 1
       /\ freshness_file = [exists |-> TRUE, data |-> freshness]
  /\ (pc = "loop" /\ idx = Len(country_links)) => ENABLED FlushData
  /\ pc = "save" => ENABLED SaveFreshness

\* C9 witness: a run over two entries, one skipped and one failed, none
\* scraped, has saved the ledger.
C9_Witness ==
  /\ pc = "done"
  /\ Len(Listed) = 2
  /\ Of("update") = <<>>
  /\ Of("skip") /= <<>>
  /\ Of("error") /= <<>>
  /\ all_docs = <<>>

\* C10 as claimed: however the run ends, it has written the ledger and,
\* when there is one, the accumulated result set.
C10_PersistsOnEveryEnding ==
  pc \in {"done", "crashed"} =>
    /\ Of("save_freshness") /= <<>>
    /\ all_docs /= <<>> => Of("write_data") /= <<>>

\* C10 amended: a run that completes has written the ledger and, when it is
\* not empty, the accumulated result set as they are at that point; a run
\* whose directory listing fails ends at once and writes neither file.
C10_PersistsOnCompletion ==
  /\ pc = "done" =>
       /\ freshness_file = [exists |-> TRUE, data |-> freshness]
       /\ all_docs /= <<>> =>
            /\ data_file.exists
            /\ Provenances(data_file.docs) = Provenances(all_docs)
  /\ (Of("list") /= <<>> /\ ~Of("list")[1].ok) =>
       /\ pc = "crashed"
       /\ Len(trace) = 1
       /\ freshness_file.data = loaded
       /\ ~data_file.exists
       /\ all_docs = <<>>

\* C10 witness: the directory listing failed while the ledger file held an
\* entry, and the run is over.
C10_Witness ==
  /\ pc = "crashed"
  /\ freshness_file.exists
  /\ DOMAIN freshness_file.data /= {}
  /\ Of("save_freshness") = <<>>

\* the rows of the pages fetched successfully, in the order of the fetches
RECURSIVE FetchedRows(_)
FetchedRows(events) ==
  IF events = <<>> THEN <<>>
  ELSE (IF Head(events).op = "fetch" /\ Head(events).ok
          THEN ShownRows(Head(events).page) ELSE <<>>)
       \o FetchedRows(Tail(events))

\* C11: the accumulator holds, in every state of a run and so at the end of
\* each partition and of the run, one document per row of the pages fetched
\* successfully, in the order of the fetches and of the rows on each page;
\* the fetches go through the directory entries in directory order and,
\* within an entry, through its chain from the first page on.
C11_AccumulatorOrder ==
  LET f == Of("fetch") IN
  /\ Provenances(all_docs) = FetchedRows(trace)
  /\ \A k \in 1..Len(f) :
       /\ f[k].part \in 1..idx
       /\ k > 1 => f[k - 1].part <= f[k].part
       /\ (k = 1 \/ f[k - 1].part < f[k].part) => f[k].page = Listed[f[k].part].href
       /\ (k > 1 /\ f[k - 1].part = f[k].part) =>
            (f[k - 1].ok /\ f[k].page = Html(f[k - 1].page).next)

\* C11 witness: the run is over; the first three pages of the first entry,
\* A, gave two, one and one documents in that order; of the second entry, D,
\* the first page gave two documents, the second none and the first page,
\* fetched again, two more, before a fetch failed.
C11_Witness ==
  /\ pc = "done"
  /\ Listed = <<[href |-> HrefA, label |-> <<"A">>], AnchorD>>
  /\ Len(all_docs) >= 8
  /\ all_docs[1].page = HrefA /\ all_docs[2].page = HrefA
  /\ all_docs[1].name /= all_docs[2].name
  /\ all_docs[3].page = PagePath(HrefA, 2)
  /\ all_docs[4].page = PagePath(HrefA, 3)
  /\ Len(Fetches(1)) = NPages(HrefA)
  /\ Len(Fetches(2)) = 4 /\ ~Fetches(2)[4].ok
  /\ \A k \in 1..4 : all_docs[Len(all_docs) - 4 + k].page = HrefD

\* the chain of a partition comes back to a page it has shown before
Cyclic(href) ==
  \E k \in 1..NPages(href) : \E j \in 1..k :
    Html(PagePath(href, k)).next = PagePath(href, j)

\* scrape_country is over for entry i
WalkOver(i) == i < idx \/ pc /= "walk"

\* what C12 says of every state
C12_Walks ==
  \A i \in 1..idx :
    LET h == country_links[i].href
        f == Fetches(i)
    IN  /\ \A j \in 1..Len(f) :
             (f[j].ok /\ Html(f[j].page).next = <<>>) => j = Len(f)
        /\ ~Cyclic(h) =>
             /\ \A j \in 1..Len(f) : \A k \in 1..Len(f) :
                  j /= k => f[j].page /= f[k].page
             /\ (OfPart("update", i) /= <<>> \/ OfPart("return", i) /= <<>>) =>
                  /\ Len(f) = NPages(h)
                  /\ \A k \in 1..NPages(h) : f[k].ok /\ f[k].page = PagePath(h, k)
        /\ WalkOver(i) =>
             IF f = <<>>
               THEN OfPart("skip", i) /= <<>> \/ OfPart("error", i) /= <<>>
               ELSE ~Last(f).ok \/ Html(Last(f).page).next = <<>>
        /\ (Cyclic(h) /\ OfPart("skip", i) = <<>> /\ (\A j \in 1..Len(f) : f[j].ok)
              /\ OfPart("error", i) = <<>>) =>
             /\ i = idx /\ pc = "walk"
             /\ current_path \in ExistingPaths

\* C12: the walk of a partition whose chain is finite and repeats no page
\* comes to an end, having fetched no page twice and, where it ended without
\* a failure, every page of the chain once; nothing is fetched after a page
\* without next-page link; a walk that is over ended on such a page or on a
\* failed fetch; the walk of a chain that cycles is still going on, with a
\* page to fetch, for as long as no fetch fails.
C12_WalkTermination ==
  /\ []C12_Walks
  /\ (pc = "walk" /\ ~Cyclic(country_links[idx].href)) ~> (pc /= "walk")

\* C12 witness: the three or more pages of A have been walked to the end,
\* and the walk of D, which follows, has fetched MaxFetches pages, more than
\* D has, and has another one to fetch.
C12_Witness ==
  /\ idx = 2 /\ pc = "walk"
  /\ country_links[1].href = HrefA /\ country_links[2].href = HrefD
  /\ NPages(HrefA) >= 3
  /\ Len(Fetches(1)) = NPages(HrefA)
  /\ OfPart("update", 1) /= <<>>
  /\ Len(Fetches(2)) = MaxFetches
  /\ MaxFetches > NPages(HrefD)
  /\ Last(Fetches(2)).ok
  /\ current_path /= <<>>

\* the codes this run has written into the ledger so far
UpdatedCodes == {trace[k].code : k \in Updates}

\* C13: every code of the ledger as loaded is a code of main's ledger in
\* every state of the run and of the ledger file when the run is over, and
\* a loaded code that no partition of this run has updated is mapped to
\* what it was mapped to when loaded.
C13_LedgerCarryOver ==
  /\ pc /= "load" =>
       \A c \in DOMAIN loaded :
         /\ c \in DOMAIN freshness
         /\ c \notin UpdatedCodes => freshness[c] = loaded[c]
  /\ pc \in {"done", "crashed"} =>
       \A c \in DOMAIN loaded :
         /\ c \in DOMAIN freshness_file.data
         /\ c \notin UpdatedCodes => freshness_file.data[c] = loaded[c]

\* C13 witness: the ledger was loaded with an entry for BB, the run updated
\* AA and no other code, and the ledger file it saved holds both.
C13_Witness ==
  /\ pc = "done"
  /\ DOMAIN loaded = {"BB"}
  /\ UpdatedCodes = {"AA"}
  /\ DOMAIN freshness_file.data = {"AA", "BB"}
  /\ freshness_file.data["BB"] = loaded["BB"]

\* C14: normalize_country_name applied to its own result gives that result
\* again, for every string over letters, slash, underscore, dot, hyphen and
\* whitespace.
C14_NormalizeIdempotent ==
  (pc = "normalize" /\ Len(trace) = 2) => country_name = trace[2].page

\* the liveness probe of the document store has failed in this run
ProbeFailed == Of("ping") /= <<>> /\ ~Of("ping")[1].ok

\* C15: in a run whose liveness probe failed, main goes on to the loop and
\* never ends on an error, every entry of the directory is attempted by the
\* time the loop is over, insert_many is never called and no document is
\* stamped for the store, the accumulator holds the rows of every page
\* fetched successfully, and the result file written after the loop holds
\* the accumulator.
C15_StoreUnavailable ==
  ProbeFailed =>
    /\ coll = NoneStr
    /\ pc \in {"loop", "walk", "save", "done"}
    /\ inserts = 0 /\ insert_result = "none"
    /\ \A k \in 1..Len(all_docs) :
         all_docs[k].createdAt = <<>> /\ all_docs[k].updatedAt = <<>>
    /\ Provenances(all_docs) = FetchedRows(trace)
    /\ pc \in {"save", "done"} =>
         /\ Len(Of("call")) = Len(Listed)
         /\ all_docs /= <<>> => (data_file.exists /\ data_file.docs = all_docs)

\* C15 witness: the probe failed, both entries of the directory were walked
\* and the run ended with their documents in the result file.
C15_Witness ==
  /\ ProbeFailed
  /\ pc = "done"
  /\ Len(Listed) = 2
  /\ Fetches(1) /= <<>> /\ Last(Fetches(1)).ok
  /\ Fetches(2) /= <<>> /\ Last(Fetches(2)).ok
  /\ data_file.exists
  /\ Len(data_file.docs) >= 4

\* C16: DATA_FILE is written at most once in a run; when it is written,
\* every entry of the directory has been attempted, the accumulator is not
\* empty and nothing but the save of the ledger follows; a run that gets
\* past the loop with an empty accumulator has not written it, and the
\* file exists only if the run wrote it.
C16_ResultFileOnce ==
  LET w == {k \in 1..Len(trace) : trace[k].op = "write_data"} IN
  /\ Cardinality(w) <= 1
  /\ \A k \in w :
       /\ pc \in {"save", "done"}
       /\ idx = Len(Listed) /\ Len(Of("call")) = Len(Listed)
       /\ all_docs /= <<>>
       /\ data_file.docs = JsonDump(all_docs)
       /\ \A m \in (k + 1)..Len(trace) : trace[m].op = "save_freshness"
  /\ data_file.exists <=> w /= {}
  /\ (pc \in {"save", "done"} /\ all_docs = <<>>) => w = {}

\* C16 witness: a run over two entries, the first skipped and the second
\* failing on its first page, is over and there is no result file.
C16_Witness ==
  /\ pc = "done"
  /\ Len(Listed) = 2
  /\ OfPart("skip", 1) /= <<>>
  /\ Len(Fetches(2)) = 1 /\ ~Fetches(2)[1].ok
  /\ ~data_file.exists

\* for every row of the pages fetched successfully, in order, the directory
\* entry the fetch was made for and the page fetched
RECURSIVE FetchTags(_)
FetchTags(events) ==
  IF events = <<>> THEN <<>>
  ELSE (IF Head(events).op = "fetch" /\ Head(events).ok
          THEN [j \in 1..Len(ShownRows(Head(events).page)) |->
                  <<Head(events).part, Head(events).page>>]
          ELSE <<>>)
       \o FetchTags(Tail(events))

\* C17: in every state, every document of the accumulator carries as page
\* the page that was fetched when it was made, its cells are those of one row
\* of that page, the page is a page of the directory entry being walked, and
\* its country, iso_code and iso3 are the normalized name of that entry and
\* the codes the lookup gave for it when the entry was taken (the first
\* answer of the service for that name, or none).
C17_Provenance ==
  LET tags == FetchTags(trace)
      calls == Of("call")
  IN
  /\ Len(all_docs) = Len(tags)
  /\ \A k \in 1..Len(all_docs) :
       LET d == all_docs[k]
           i == tags[k][1]
           link == Listed[i]
           name == CountryNameOf(link.href, link.label)
           h == Html(d.page)
       IN  /\ d.page = tags[k][2]
           /\ d.page \in ExistingPaths
           /\ HrefOf(d.page) = link.href
           /\ \E j \in 1..Len(h.names) :
                /\ d.name = h.names[j] /\ d.swift_code = h.swifts[j]
                /\ d.city = h.cities[j] /\ d.branch = h.branches[j]
           /\ d.country = name
           /\ d.iso_code = calls[i].code
           /\ IF d.iso_code = NoneStr
                THEN d.iso3 = NoneStr
                ELSE /\ Service(name) /= <<>>
                     /\ d.iso_code = Service(name)[1].cca2
                     /\ d.iso3 = Service(name)[1].cca3

\* C17 witness: the accumulator holds a document of the second page of A
\* with A's codes and a document of D, which has no codes.
C17_Witness ==
  /\ \E k \in 1..Len(all_docs) :
       /\ all_docs[k].page = PagePath(HrefA, 2)
       /\ all_docs[k].iso_code = "AA" /\ all_docs[k].iso3 = "AAA"
       /\ all_docs[k].country = <<"a">>
  /\ \E n \in 1..Len(all_docs) :
       /\ all_docs[n].page = HrefD
       /\ all_docs[n].iso_code = NoneStr
       /\ all_docs[n].country = <<"d">>

\* the fetches of this run that gave a page with rows
FetchesWithRows ==
  {k \in 1..Len(trace) :
     trace[k].op = "fetch" /\ trace[k].ok /\ ShownRows(trace[k].page) /= <<>>}

\* C18: an entry that should_scrape judged fresh has nothing in the history
\* but its call and its skip, at one and the same time: no fetch, no pause,
\* no update of the ledger; every insert_many of the run belongs to a page
\* fetched, so none to a skipped entry; and when scrape_country has come
\* back from the skip, the ledger, the stored timestamp of the entry's code
\* in it and the accumulator are what they were when it was called.
C18_SkipLeavesState ==
  /\ inserts = (IF coll = NoneStr THEN 0 ELSE Cardinality(FetchesWithRows))
  /\ \A k \in 1..Len(trace) :
       trace[k].op = "skip" =>
         /\ k > 1
         /\ trace[k - 1].op = "call" /\ trace[k - 1].part = trace[k].part
         /\ trace[k - 1].at = trace[k].at
         /\ \A m \in 1..Len(trace) :
              trace[m].part = trace[k].part => m \in {k - 1, k}
         /\ k < Len(trace) => trace[k + 1].at = trace[k].at
  /\ (trace /= <<>> /\ Last(trace).op = "skip") => pc /= "walk"
  /\ Ended("skip") =>
       /\ ~decision.raised /\ ~decision.ok
       /\ now = Last(trace).at
       /\ insert_result = "none"
       /\ freshness = start.freshness
       /\ iso2 \in DOMAIN freshness
       /\ freshness[iso2] = start.freshness[iso2]
       /\ all_docs = start.all_docs

\* C18 witness: the second entry has just been skipped, after the first
\* entry left documents in the accumulator and in the store.
C18_Witness ==
  /\ Ended("skip")
  /\ idx = 2
  /\ all_docs /= <<>>
  /\ inserts >= 1
  /\ freshness[iso2][1] = "aware"

\* C19: when two entries of one run resolve to the same iso2 and the walk
\* of the earlier one completed, the later one is skipped: nothing is
\* fetched for it, the accumulator is as it was when it was taken, and the
\* reason should_scrape gave is the timestamp an entry of this run wrote
\* under that code.  (The pauses of a run add up to less than the freshness
\* window.)
C19_SameCodeTwice ==
  LET calls == Of("call") IN
  /\ now - StartTime < FreshnessWindow
  /\ \A j \in 1..idx : \A i \in 1..(j - 1) :
       (Truthy(calls[i].code) /\ calls[i].code = calls[j].code /\ Completed(i)) =>
         /\ OfPart("skip", j) /= <<>>
         /\ Fetches(j) = <<>>
         /\ LET tags == FetchTags(trace)
            IN  \A k \in 1..Len(tags) : tags[k][1] /= j
         /\ j = idx =>
              /\ pc /= "walk"
              /\ all_docs = start.all_docs
              /\ ~decision.raised /\ ~decision.ok
              /\ \E u \in Updates :
                   /\ trace[u].code = calls[j].code
                   /\ decision.reason = <<"recent", <<"aware", trace[u].at, 0>>>>

\* C19 witness: the directory lists A twice, the ledger held nothing usable
\* for AA, the first entry was walked to the end and the second has just
\* been skipped.
C19_Witness ==
  /\ Ended("skip")
  /\ idx = 2
  /\ Listed[1].href = HrefA /\ Listed[2].href = HrefA
  /\ Completed(1)
  /\ iso2 = "AA"
  /\ LedgerGet(loaded, "AA")[1] \in {"none", "bad"}
  /\ Len(all_docs) = Len(ChainRows(HrefA, NPages(HrefA)))

\* C20: whatever the iso2 of an entry and whatever the ledger holds under
\* it (nothing, the empty string, text that is no timestamp, a timestamp
\* with or without UTC offset), should_scrape returns a pair and raises
\* nothing.
C20_ShouldScrapeTotal ==
  idx >= 1 => ~decision.raised

====
